---- MODULE Spec2Model ----
(***************************************************************************)
(* State-machine model of SurveillanceSystem                               *)
(* (src/main/advanced_surveillance_system.py).                             *)
(*                                                                         *)
(* Threads of control:                                                     *)
(*   - the Tk main loop, which runs the button handlers                    *)
(*     (initiate_monitoring, terminate_monitoring, cycle_camera_input) and *)
(*     the callbacks queued with root.after (update_surveillance_display); *)
(*   - one daemon thread per successful initiate_monitoring, running       *)
(*     process_video_frame.                                                *)
(*                                                                         *)
(* Numbers.  Landmark coordinates are integers in units of 0.0001 of the   *)
(* normalised image, and time is counted in ticks of 1/60 s.               *)
(* calculate_distance is a square root; every comparison the code makes    *)
(* on a distance (d > t, d == 0, d1/d2 < r) is made here on the squares,   *)
(* which decides the same thing for non-negative reals.  Floating-point    *)
(* rounding is not modelled.                                               *)
(***************************************************************************)
EXTENDS Integers, Sequences, FiniteSets, TLC

\* ------------------------------------------------------------- bounds
MaxFrames  == 1     \* frames that pass the throttle in a behaviour of Spec
DisplayFrames  == 4 \* the same, in a behaviour of SpecDisplay
AnalysedFrames == 3 \* the same, in a behaviour of SpecFrames
HalfRun    == 5     \* frames in each half of a script of SpecRun
SessionFrames == 1  \* SpecRestart: frames processed before the session is stopped
MaxThreads == 2     \* producer threads spawned in one behaviour
MaxTime    == 64    \* largest value time.time() returns, in ticks
NumCameras == 2     \* cameras on the machine, at the device indices 0, 2, ...

\* -------------------------------------------------- program constants
\* Coordinates: 1 unit = 0.0001 of the normalised image.  Time: 1 tick = 1/60 s.
MovementThreshold  == 80     \* movement_threshold = 0.008
EyeOpenThreshold   == 12     \* eye_open_threshold = 0.0012
MinFrameInterval   == 2      \* 1/30 s
FpsWindow          == 60     \* 1.0 s
UiStride           == 3      \* fps_counter % 3
ProbeRange         == 5      \* range(5) and % 5 in cycle_camera_input
NOSE_TIP           == 1      \* face_landmarks.landmark[1]
LEFT_IRIS          == 468
RIGHT_IRIS         == 473
LEFT_EYE_CORNERS   == << 33, 133 >>
RIGHT_EYE_CORNERS  == << 362, 263 >>
\* The gaze-ratio thresholds 0.25, 0.35, 0.65, 0.75 as fractions << num, den >>.
GazeExtremeLeft    == << 1, 4 >>
GazeLeft           == << 7, 20 >>
GazeRight          == << 13, 20 >>
GazeExtremeRight   == << 3, 4 >>

\* Python's None, in each type that holds it
None     == "None"     \* a string
NoPoint  == << >>      \* a landmark point
NoDevice == [ object |-> FALSE, index |-> 0, opened |-> FALSE, releases |-> 0 ]
NoFrame  == 0          \* self.frame_buffer = None
Unset    == -1         \* the attribute fps_start_time does not exist

VARIABLES
    is_monitoring,            \* self.is_monitoring
    capture_device,           \* self.capture_device: NoDevice or a VideoCapture object
    camera_index,             \* self.camera_index
    control_status,           \* self.control_status (StringVar)
    available,                \* the camera indices that currently open (environment)
    threads,                  \* the producer threads, in spawn order
    previous_nose_position,   \* self.previous_nose_position
    frame_buffer,             \* self.frame_buffer: None or the id of the frame stored
    last_update_time,         \* self.last_update_time
    fps_counter,              \* self.fps_counter
    fps_display,              \* self.fps_display
    fps_start_time,           \* self.fps_start_time, None while the attribute is unset
    ui_update_lock,           \* "free" or "consumer"
    after_queue,              \* callbacks queued by root.after, oldest first
    consumer,                 \* the running update_surveillance_display call
    display,                  \* what the widgets show
    clock,                    \* the latest value returned by time.time()
    frame_seq,                \* number of frames that passed the throttle
    first_frame_time,         \* history: current_time of the first such frame
    last_call,                \* history: the latest command and the state it found
    script,                   \* SpecRun: the frames the landmark provider will answer
    feed,                     \* SpecRun: those it has not answered yet
    status_log,               \* history of a scripted run: status per frame
    alert_log,                \* history of a scripted run: trigger_alert calls
    probe,                    \* SpecFeatures: the landmark list a function is given
    outcome                   \* SpecFeatures: the function called and what it returned

vars == << is_monitoring, capture_device, camera_index, control_status,
           available, threads, previous_nose_position, frame_buffer,
           last_update_time, fps_counter, fps_display, fps_start_time,
           ui_update_lock, after_queue, consumer, display, clock, frame_seq,
           first_frame_time, last_call, script, feed, status_log, alert_log,
           probe, outcome >>

sessionVars == << is_monitoring, capture_device, camera_index, control_status >>
frameVars   == << previous_nose_position, frame_buffer, last_update_time,
                  fps_counter, fps_display, fps_start_time, clock, frame_seq,
                  first_frame_time >>
uiVars      == << ui_update_lock, after_queue, consumer, display >>
scriptVars  == << script, feed, status_log, alert_log >>
probeVars   == << probe, outcome >>

\* ------------------------------------------------ landmark frames
\* A frame is what face_mesh.process returns: face = FALSE when
\* multi_face_landmarks is empty, else landmark maps the indices present to
\* points << x, y >>.
Pt(x, y) == << x, y >>

RequiredIndices == { NOSE_TIP, LEFT_IRIS, RIGHT_IRIS,
                     LEFT_EYE_CORNERS[1], LEFT_EYE_CORNERS[2],
                     RIGHT_EYE_CORNERS[1], RIGHT_EYE_CORNERS[2] }

NoFace == [ face |-> FALSE, landmark |-> [ i \in RequiredIndices |-> Pt(0, 0) ] ]

\* An eye lying on the line y = 400: first corner at x0, second corner at
\* x0 + width, iris centre at x0 + iris.
MkFrame(nose, lw, li, rw, ri) ==
    [ face |-> TRUE,
      landmark |->
        [ i \in RequiredIndices |->
            CASE i = NOSE_TIP             -> nose
              [] i = LEFT_EYE_CORNERS[1]  -> Pt(300, 400)
              [] i = LEFT_EYE_CORNERS[2]  -> Pt(300 + lw, 400)
              [] i = LEFT_IRIS            -> Pt(300 + li, 400)
              [] i = RIGHT_EYE_CORNERS[1] -> Pt(600, 400)
              [] i = RIGHT_EYE_CORNERS[2] -> Pt(600 + rw, 400)
              [] OTHER                    -> Pt(600 + ri, 400) ] ]

\* A landmark list of length n: face_landmarks.landmark[i] raises IndexError
\* for i >= n.  The corners and iris of an eye are given as offsets << dx, dy >>
\* from its first corner.
MkLandmarks(n, nose, lc, li, rc, ri) ==
    [ i \in { j \in RequiredIndices : j < n } |->
        CASE i = NOSE_TIP             -> nose
          [] i = LEFT_EYE_CORNERS[1]  -> Pt(300, 400)
          [] i = LEFT_EYE_CORNERS[2]  -> Pt(300 + lc[1], 400 + lc[2])
          [] i = LEFT_IRIS            -> Pt(300 + li[1], 400 + li[2])
          [] i = RIGHT_EYE_CORNERS[1] -> Pt(600, 400)
          [] i = RIGHT_EYE_CORNERS[2] -> Pt(600 + rc[1], 400 + rc[2])
          [] OTHER                    -> Pt(600 + ri[1], 400 + ri[2]) ]

NoLandmarks == MkLandmarks(0, Pt(0, 0), Pt(0, 0), Pt(0, 0), Pt(0, 0), Pt(0, 0))

\* Nose tips: steps of 0, 1, 79, 80 (at the threshold), 81 and 160 units
\* occur between them.
NosePoints == { Pt(500, 600), Pt(580, 600), Pt(660, 600), Pt(581, 600) }

\* << width, iris offset >>: degenerate, at the open threshold, and an open
\* eye looking centre, extreme left, right, extreme right.
LeftEyes  == { << 0, 0 >>, << 12, 6 >>, << 100, 50 >>, << 100, 24 >>, << 100, 66 >> }
RightEyes == { << 100, 50 >>, << 100, 76 >>, << 12, 6 >> }

FaceFrames == { MkFrame(n, l[1], l[2], r[1], r[2]) :
                  n \in NosePoints, l \in LeftEyes, r \in RightEyes }
Frames == FaceFrames \cup { NoFace }

\* For the runs that are about the threads and not about the landmarks: a
\* face with open eyes looking centre (no alert) and one with an eye shut.
FewFrames == { MkFrame(Pt(500, 600), 100, 50, 100, 50),
               MkFrame(Pt(500, 600), 12, 6, 100, 50) }

\* ------------------------------------------------ feature extraction
\* calculate_distance(a, b) ** 2
DistanceSq(a, b) == (a[1] - b[1]) * (a[1] - b[1]) + (a[2] - b[2]) * (a[2] - b[2])

\* d1/d2 < num/den for distances d1, d2 > 0 given by their squares
RatioBelow(d1sq, d2sq, q) == d1sq * q[2] * q[2] < q[1] * q[1] * d2sq
RatioAbove(d1sq, d2sq, q) == d1sq * q[2] * q[2] > q[1] * q[1] * d2sq

Has(face_landmarks, indices) == indices \subseteq DOMAIN face_landmarks

\* The value returned at line 68, when eye_width == 0.
DegenerateGaze == << "TRACKING_ERROR", FALSE >>

\* analyze_gaze_direction with <= in place of < at line 73 and >= in place of
\* > at line 77
analyze_gaze_direction_inclusive(face_landmarks, eye_side) ==
    LET c1 == IF eye_side = "left" THEN LEFT_EYE_CORNERS[1] ELSE RIGHT_EYE_CORNERS[1]
        c2 == IF eye_side = "left" THEN LEFT_EYE_CORNERS[2] ELSE RIGHT_EYE_CORNERS[2]
        ic == IF eye_side = "left" THEN LEFT_IRIS ELSE RIGHT_IRIS
    IN  IF ~Has(face_landmarks, { c1, c2, ic })
        THEN << "DETECTION_FAILED", TRUE >>
        ELSE LET eye_width     == DistanceSq(face_landmarks[c1], face_landmarks[c2])
                 iris_position == DistanceSq(face_landmarks[c1], face_landmarks[ic])
             IN  IF eye_width = 0 THEN DegenerateGaze
                 ELSE IF ~RatioAbove(iris_position, eye_width, GazeExtremeLeft)
                      THEN << "EXTREME_LEFT", TRUE >>
                 ELSE IF RatioBelow(iris_position, eye_width, GazeLeft)
                      THEN << "LEFT", FALSE >>
                 ELSE IF ~RatioBelow(iris_position, eye_width, GazeExtremeRight)
                      THEN << "EXTREME_RIGHT", TRUE >>
                 ELSE IF RatioAbove(iris_position, eye_width, GazeRight)
                      THEN << "RIGHT", FALSE >>
                 ELSE << "CENTER", FALSE >>

\* analyze_gaze_direction: << label, alert flag >>
analyze_gaze_direction(face_landmarks, eye_side) ==
    LET c1 == IF eye_side = "left" THEN LEFT_EYE_CORNERS[1] ELSE RIGHT_EYE_CORNERS[1]
        c2 == IF eye_side = "left" THEN LEFT_EYE_CORNERS[2] ELSE RIGHT_EYE_CORNERS[2]
        ic == IF eye_side = "left" THEN LEFT_IRIS ELSE RIGHT_IRIS
    IN  IF ~Has(face_landmarks, { c1, c2, ic })
        THEN << "DETECTION_FAILED", TRUE >>
        ELSE LET eye_width     == DistanceSq(face_landmarks[c1], face_landmarks[c2])
                 iris_position == DistanceSq(face_landmarks[c1], face_landmarks[ic])
             IN  IF eye_width = 0 THEN DegenerateGaze
                 ELSE IF RatioBelow(iris_position, eye_width, GazeExtremeLeft)
                      THEN << "EXTREME_LEFT", TRUE >>
                 ELSE IF RatioBelow(iris_position, eye_width, GazeLeft)
                      THEN << "LEFT", FALSE >>
                 ELSE IF RatioAbove(iris_position, eye_width, GazeExtremeRight)
                      THEN << "EXTREME_RIGHT", TRUE >>
                 ELSE IF RatioAbove(iris_position, eye_width, GazeRight)
                      THEN << "RIGHT", FALSE >>
                 ELSE << "CENTER", FALSE >>

\* detect_eye_state with >= in place of > at lines 100-101
detect_eye_state_at_threshold(face_landmarks) ==
    IF ~Has(face_landmarks, { LEFT_EYE_CORNERS[1], LEFT_EYE_CORNERS[2],
                              RIGHT_EYE_CORNERS[1], RIGHT_EYE_CORNERS[2] })
    THEN FALSE
    ELSE LET left_opening  == DistanceSq(face_landmarks[LEFT_EYE_CORNERS[1]],
                                         face_landmarks[LEFT_EYE_CORNERS[2]])
             right_opening == DistanceSq(face_landmarks[RIGHT_EYE_CORNERS[1]],
                                         face_landmarks[RIGHT_EYE_CORNERS[2]])
         IN  /\ left_opening >= EyeOpenThreshold * EyeOpenThreshold
             /\ right_opening >= EyeOpenThreshold * EyeOpenThreshold

\* detect_eye_state
detect_eye_state(face_landmarks) ==
    IF ~Has(face_landmarks, { LEFT_EYE_CORNERS[1], LEFT_EYE_CORNERS[2],
                              RIGHT_EYE_CORNERS[1], RIGHT_EYE_CORNERS[2] })
    THEN FALSE
    ELSE LET left_opening  == DistanceSq(face_landmarks[LEFT_EYE_CORNERS[1]],
                                         face_landmarks[LEFT_EYE_CORNERS[2]])
             right_opening == DistanceSq(face_landmarks[RIGHT_EYE_CORNERS[1]],
                                         face_landmarks[RIGHT_EYE_CORNERS[2]])
         IN  /\ left_opening > EyeOpenThreshold * EyeOpenThreshold
             /\ right_opening > EyeOpenThreshold * EyeOpenThreshold

\* monitor_head_movement with self.previous_nose_position = prev.  movement is
\* the square of the displacement the code returns; stored is the value of
\* self.previous_nose_position when the call returns.
HeadKeepBaseline(prev, face_landmarks) ==
    IF ~Has(face_landmarks, { NOSE_TIP })
    THEN [ moved |-> FALSE, movement |-> 0, stored |-> prev ]
    ELSE LET current_nose == face_landmarks[NOSE_TIP]
             movement == IF prev = NoPoint THEN 0 ELSE DistanceSq(current_nose, prev)
         IN  IF prev # NoPoint /\ movement > MovementThreshold * MovementThreshold
             THEN [ moved |-> TRUE, movement |-> movement, stored |-> current_nose ]
             ELSE [ moved |-> FALSE, movement |-> 0,
                    stored |-> IF prev = NoPoint THEN current_nose ELSE prev ]

monitor_head_movement(prev, face_landmarks) ==
    IF ~Has(face_landmarks, { NOSE_TIP })
    THEN [ moved |-> FALSE, movement |-> 0, stored |-> prev ]
    ELSE LET current_nose == face_landmarks[NOSE_TIP]
             movement == IF prev = NoPoint THEN 0 ELSE DistanceSq(current_nose, prev)
         IN  IF prev # NoPoint /\ movement > MovementThreshold * MovementThreshold
             THEN [ moved |-> TRUE, movement |-> movement, stored |-> current_nose ]
             ELSE [ moved |-> FALSE, movement |-> 0, stored |-> current_nose ]

\* ------------------------------------------------ classification
\* Lines 165-168: the analysis variables before the face loop.
AnalysisDefaultsAlarm ==
    [ status |-> "NO_TARGET", threat |-> "ALERT", alert |-> "warning" ]

AnalysisDefaults ==
    [ status |-> "NO_TARGET", threat |-> "SECURE", alert |-> "none" ]

\* Lines 193-207: status, threat level and the trigger_alert call made.
ClassifyMovementFirst(eyes_open, head_moved, left_alert, right_alert) ==
    IF head_moved
    THEN [ status |-> "EXCESSIVE_MOVEMENT", threat |-> "WARNING", alert |-> "standard" ]
    ELSE IF ~eyes_open
    THEN [ status |-> "EYES_CLOSED", threat |-> "ALERT", alert |-> "warning" ]
    ELSE IF left_alert \/ right_alert
    THEN [ status |-> "SUSPICIOUS_GAZE", threat |-> "CAUTION", alert |-> "standard" ]
    ELSE [ status |-> "TARGET_LOCKED", threat |-> "SECURE", alert |-> "none" ]

ClassifySilentGaze(eyes_open, head_moved, left_alert, right_alert) ==
    IF ~eyes_open
    THEN [ status |-> "EYES_CLOSED", threat |-> "ALERT", alert |-> "warning" ]
    ELSE IF head_moved
    THEN [ status |-> "EXCESSIVE_MOVEMENT", threat |-> "WARNING", alert |-> "standard" ]
    ELSE IF left_alert \/ right_alert
    THEN [ status |-> "SUSPICIOUS_GAZE", threat |-> "CAUTION", alert |-> "none" ]
    ELSE [ status |-> "TARGET_LOCKED", threat |-> "SECURE", alert |-> "none" ]

Classify(eyes_open, head_moved, left_alert, right_alert) ==
    IF ~eyes_open
    THEN [ status |-> "EYES_CLOSED", threat |-> "ALERT", alert |-> "warning" ]
    ELSE IF head_moved
    THEN [ status |-> "EXCESSIVE_MOVEMENT", threat |-> "WARNING", alert |-> "standard" ]
    ELSE IF left_alert \/ right_alert
    THEN [ status |-> "SUSPICIOUS_GAZE", threat |-> "CAUTION", alert |-> "standard" ]
    ELSE [ status |-> "TARGET_LOCKED", threat |-> "SECURE", alert |-> "none" ]

\* ------------------------------------------------ camera session
\* The object's session fields, as one record, so that cycle_camera_input
\* can be composed of the two handlers it calls.
Session ==
    [ is_monitoring  |-> is_monitoring,
      capture_device |-> capture_device,
      camera_index   |-> camera_index,
      control_status |-> control_status,
      threads        |-> threads ]

\* The locals of process_video_frame before an iteration has set them.
NoLocals ==
    [ landmarks |-> NoFace, frame |-> NoFrame, current_time |-> 0,
      face_detected |-> FALSE, eyes_open |-> FALSE, head_moved |-> FALSE,
      movement |-> 0, left_gaze |-> None, right_gaze |-> None,
      left_alert |-> FALSE, right_alert |-> FALSE,
      status |-> None, threat |-> None, alert |-> None, beep |-> None ]

NewThread == [ pc |-> "start", v |-> NoLocals ]

\* cv2.VideoCapture(index): the object, which counts the release() calls made on it
VideoCapture(index, avail) ==
    [ object |-> TRUE, index |-> index, opened |-> index \in avail, releases |-> 0 ]

\* cv2.VideoCapture.release()
Released(device) == [ device EXCEPT !.opened = FALSE, !.releases = @ + 1 ]

\* terminate_monitoring that releases the device and keeps the reference
TerminatedKeepsDevice(s) ==
    [ s EXCEPT !.is_monitoring = FALSE,
               !.capture_device = IF s.capture_device # NoDevice
                                  THEN Released(s.capture_device)
                                  ELSE s.capture_device,
               !.control_status = "SYSTEM OFFLINE" ]

\* terminate_monitoring.  A VideoCapture object is truthy whether or not it
\* is opened, so line 296 tests only for None.
Terminated(s) ==
    [ s EXCEPT !.is_monitoring = FALSE,
               !.capture_device = NoDevice,
               !.control_status = "SYSTEM OFFLINE" ]

\* initiate_monitoring without line 290
InitiatedKeepsFlag(s, avail) ==
    IF s.is_monitoring THEN s
    ELSE LET opened == s.camera_index \in avail
         IN  [ s EXCEPT
                 !.capture_device = VideoCapture(s.camera_index, avail),
                 !.is_monitoring = TRUE,
                 !.threads = IF opened THEN Append(@, NewThread) ELSE @,
                 !.control_status = IF opened THEN "SYSTEM ACTIVE"
                                              ELSE "CAMERA ERROR" ]

\* initiate_monitoring, when the cameras that open are those in avail
Initiated(s, avail) ==
    IF s.is_monitoring THEN s
    ELSE LET opened == s.camera_index \in avail
         IN  [ s EXCEPT
                 !.capture_device = VideoCapture(s.camera_index, avail),
                 !.is_monitoring = opened,
                 !.threads = IF opened THEN Append(@, NewThread) ELSE @,
                 !.control_status = IF opened THEN "SYSTEM ACTIVE"
                                              ELSE "CAMERA ERROR" ]

\* What initiate_monitoring tells its caller.  It returns None on every path
\* and raises nothing; the one thing it reports is the status text it sets,
\* and on the path that finds is_monitoring set (line 280) it sets none.
InitiateReport(s, avail) ==
    IF s.is_monitoring THEN "nothing" ELSE Initiated(s, avail).control_status

\* Lines 310-318: the indices the loop tests, in order
ProbeOrder(index) == [ k \in 1..ProbeRange |-> (index + 1 + (k - 1)) % ProbeRange ]

\* the tests made: up to and including the first that opens
ProbesMade(index, avail) ==
    LET hits == { k \in 1..ProbeRange : ProbeOrder(index)[k] \in avail }
    IN  IF hits = {} THEN ProbeOrder(index)
        ELSE SubSeq(ProbeOrder(index), 1,
                    CHOOSE k \in hits : \A j \in hits : k <= j)

\* self.camera_index after the loop
ProbedIndex(index, avail) ==
    LET made == ProbesMade(index, avail)
    IN  IF made[Len(made)] \in avail THEN made[Len(made)] ELSE index

\* cycle_camera_input
Cycled(s, avail) ==
    LET was_monitoring == s.is_monitoring
        stopped == IF was_monitoring THEN Terminated(s) ELSE s
        probed  == [ stopped EXCEPT
                       !.camera_index = ProbedIndex(stopped.camera_index, avail) ]
    IN  IF was_monitoring THEN Initiated(probed, avail) ELSE probed

SetSession(s) ==
    /\ is_monitoring'  = s.is_monitoring
    /\ capture_device' = s.capture_device
    /\ camera_index'   = s.camera_index
    /\ control_status' = s.control_status
    /\ threads'        = s.threads

\* The Tk main loop runs one handler or callback at a time.
MainLoopIdle == consumer.pc = "idle"

WithinBounds(s) == Len(s.threads) <= MaxThreads

Call(op) == [ op |-> op, was_monitoring |-> is_monitoring ]

initiate_monitoring ==
    /\ MainLoopIdle
    /\ WithinBounds(Initiated(Session, available))
    /\ SetSession(Initiated(Session, available))
    /\ last_call' = Call("start")
    /\ UNCHANGED << available, frameVars, uiVars, scriptVars, probeVars >>

terminate_monitoring ==
    /\ MainLoopIdle
    /\ SetSession(Terminated(Session))
    /\ last_call' = Call("stop")
    /\ UNCHANGED << available, frameVars, uiVars, scriptVars, probeVars >>

cycle_camera_input ==
    /\ MainLoopIdle
    /\ WithinBounds(Cycled(Session, available))
    /\ SetSession(Cycled(Session, available))
    /\ last_call' = Call("cycle")
    /\ UNCHANGED << available, frameVars, uiVars, scriptVars, probeVars >>

\* The cameras sit on one hub, which is unplugged or plugged in again.
Installed == { 2 * i : i \in 0..(NumCameras - 1) }

CameraChange ==
    /\ available' = IF available = { } THEN Installed ELSE { }
    /\ UNCHANGED << sessionVars, threads, frameVars, uiVars,
                    last_call, scriptVars, probeVars >>

\* ------------------------------------------------ producer thread
\* process_video_frame, one action per point where the thread reads or
\* writes what the main loop or another producer shares with it.  pc:
\*   start     line 137              loop      line 147, self.is_monitoring
\*   loopdev   line 147, isOpened()  read      line 148
\*   throttle  lines 153-158         process   lines 161-209
\*   beep      winsound.Beep playing write     lines 212-213
\*   notify    lines 216-224
\*   done      the function returned crashed   an exception ended the thread
ThreadIds == 1..MaxThreads
Threads   == 1..Len(threads)

Goto(t, pc) == [ threads EXCEPT ![t].pc = pc ]
GotoWith(t, pc, v) == [ threads EXCEPT ![t] = [ pc |-> pc, v |-> v ] ]


Enter(t) ==
    /\ t \in Threads
    /\ threads[t].pc = "start"
    /\ threads' = Goto(t, IF capture_device.opened THEN "loop" ELSE "done")
    /\ UNCHANGED << sessionVars, available, frameVars, uiVars,
                    last_call, scriptVars, probeVars >>

LoopFlag(t) ==
    /\ t \in Threads
    /\ threads[t].pc = "loop"
    /\ threads' = Goto(t, IF is_monitoring THEN "loopdev" ELSE "done")
    /\ UNCHANGED << sessionVars, available, frameVars, uiVars,
                    last_call, scriptVars, probeVars >>

\* None.isOpened() raises AttributeError, which nothing catches.
LoopDevice(t) ==
    /\ t \in Threads
    /\ threads[t].pc = "loopdev"
    /\ threads' = Goto(t, IF capture_device = NoDevice THEN "crashed"
                          ELSE IF capture_device.opened THEN "read" ELSE "done")
    /\ UNCHANGED << sessionVars, available, frameVars, uiVars,
                    last_call, scriptVars, probeVars >>

\* read() on a released handle or an unplugged camera returns (False, None);
\* on a working camera it may still fail.
Read(t) ==
    /\ t \in Threads
    /\ threads[t].pc = "read"
    /\ \/ /\ capture_device = NoDevice
          /\ threads' = Goto(t, "crashed")
       \/ /\ capture_device # NoDevice
          /\ threads' = Goto(t, "loop")
       \/ /\ capture_device.opened
          /\ capture_device.index \in available
          /\ threads' = Goto(t, "throttle")
    /\ UNCHANGED << sessionVars, available, frameVars, uiVars,
                    last_call, scriptVars, probeVars >>

\* Line 154 with a test that never skips
UnderBudgetNever(current_time, last) == FALSE

\* Line 154: current_time - self.last_update_time < 1/30
UnderBudget(current_time, last) == current_time - last < MinFrameInterval

\* Lines 153-158.  time.time() does not go back: it returns the value of its
\* last call plus one of steps.  cap bounds the frames that pass.
Throttle(t, cap, steps) ==
    /\ t \in Threads
    /\ threads[t].pc = "throttle"
    /\ \E current_time \in { clock + d : d \in steps } :
         /\ current_time <= MaxTime
         /\ clock' = current_time
         /\ IF UnderBudget(current_time, last_update_time)
            THEN /\ threads' = Goto(t, "loop")
                 /\ UNCHANGED << last_update_time, fps_counter, frame_seq,
                                 first_frame_time >>
            ELSE /\ frame_seq < cap
                 /\ last_update_time' = current_time
                 /\ fps_counter' = fps_counter + 1
                 /\ frame_seq' = frame_seq + 1
                 /\ first_frame_time' = IF frame_seq = 0 THEN current_time
                                        ELSE first_frame_time
                 /\ threads' = GotoWith(t, "process",
                                  [ NoLocals EXCEPT !.frame = frame_seq + 1,
                                                    !.current_time = current_time ])
    /\ UNCHANGED << sessionVars, available, previous_nose_position, frame_buffer,
                    fps_display, fps_start_time, uiVars, last_call, scriptVars, probeVars >>

\* Lines 164-209 for the provider's answer f: the locals when the face loop
\* is over, and self.previous_nose_position.
Analysed(v, f, prev) ==
    IF ~f.face
    THEN [ v |-> [ v EXCEPT !.landmarks = f,
                            !.status = AnalysisDefaults.status,
                            !.threat = AnalysisDefaults.threat,
                            !.alert  = AnalysisDefaults.alert ],
           prev |-> prev ]
    ELSE LET eyes_open == detect_eye_state(f.landmark)
             head      == monitor_head_movement(prev, f.landmark)
             left      == analyze_gaze_direction(f.landmark, "left")
             right     == analyze_gaze_direction(f.landmark, "right")
             result    == Classify(eyes_open, head.moved, left[2], right[2])
         IN  [ v |-> [ v EXCEPT !.landmarks = f,
                                !.face_detected = TRUE,
                                !.eyes_open = eyes_open,
                                !.head_moved = head.moved,
                                !.movement = head.movement,
                                !.left_gaze = left[1],
                                !.left_alert = left[2],
                                !.right_gaze = right[1],
                                !.right_alert = right[2],
                                !.status = result.status,
                                !.threat = result.threat,
                                !.alert  = result.alert ],
               prev |-> head.stored ]

\* trigger_alert blocks the thread while the tone plays.
Process(t, f) ==
    /\ t \in Threads
    /\ threads[t].pc = "process"
    /\ LET a == Analysed(threads[t].v, f, previous_nose_position)
       IN  /\ previous_nose_position' = a.prev
           /\ threads' = GotoWith(t, IF a.v.alert = "none" THEN "write" ELSE "beep", a.v)
    /\ UNCHANGED << sessionVars, available, frame_buffer, last_update_time,
                    fps_counter, fps_display, fps_start_time, clock, frame_seq,
                    first_frame_time, uiVars, last_call >>

\* The provider answers with any frame of the set given.
ProcessFrame(t, frames) ==
    /\ \E f \in frames : Process(t, f)
    /\ UNCHANGED << scriptVars, probeVars >>

\* The provider answers from the script; the run's statuses and alerts are logged.
ProcessScripted(t) ==
    /\ feed # << >>
    /\ Process(t, Head(feed))
    /\ feed' = Tail(feed)
    /\ script' = script
    /\ status_log' = Append(status_log, threads'[t].v.status)
    /\ alert_log' = IF threads'[t].pc = "beep"
                    THEN Append(alert_log, threads'[t].v.alert)
                    ELSE alert_log
    /\ UNCHANGED probeVars

\* winsound.Beep plays the tone and returns, or raises RuntimeError when it
\* cannot play it.
BeepResults == { "played", "failed" }

\* trigger_alert without the try/except of lines 130-133
trigger_alert_unguarded(alert_type, beep) ==
    IF beep = "failed" THEN "raised" ELSE "returned"

\* trigger_alert: how the call ends when winsound.Beep ends as beep.  Line 129
\* finds a frequency for every alert_type; the bare except of lines 132-133
\* swallows whatever Beep raises.
trigger_alert(alert_type, beep) ==
    IF beep = "failed" THEN "returned" ELSE "returned"

\* The call made at line 196, 200 or 204 ends, winsound.Beep having ended as
\* one of results; an exception the call raised would end the thread, nothing
\* in process_video_frame catches one.
BeepDone(t, results) ==
    /\ t \in Threads
    /\ threads[t].pc = "beep"
    /\ \E beep \in results :
         threads' = [ threads EXCEPT
                        ![t].pc = IF trigger_alert(threads[t].v.alert, beep) = "returned"
                                  THEN "write" ELSE "crashed",
                        ![t].v.beep = beep ]
    /\ UNCHANGED << sessionVars, available, frameVars, uiVars,
                    last_call, scriptVars, probeVars >>

\* Lines 212-213.
Write(t) ==
    /\ t \in Threads
    /\ threads[t].pc = "write"
    /\ ui_update_lock = "free"
    /\ frame_buffer' = threads[t].v.frame
    /\ threads' = Goto(t, "notify")
    /\ UNCHANGED << sessionVars, available, previous_nose_position, last_update_time,
                    fps_counter, fps_display, fps_start_time, clock, frame_seq,
                    first_frame_time, uiVars, last_call, scriptVars, probeVars >>

\* The arguments root.after is given at lines 217-218; frame names the
\* iteration that made the call.
Notification(v) ==
    [ face_detected |-> v.face_detected, status |-> v.status,
      threat_level |-> v.threat,
      gaze_info |-> IF v.face_detected THEN << v.left_gaze, v.right_gaze >>
                                       ELSE << "UNKNOWN" >>,
      frame |-> v.frame ]

\* Line 221: getattr(self, 'fps_start_time', current_time)
WindowStart(current_time) ==
    IF fps_start_time = Unset THEN current_time ELSE fps_start_time

\* Line 216, with a stride that starts at the first frame
UiUpdateDueFromFirst(counter) == counter % UiStride = 1

\* Line 216: self.fps_counter % 3 == 0
UiUpdateDue(counter) == counter % UiStride = 0

\* Lines 216-224.
Notify(t) ==
    /\ t \in Threads
    /\ threads[t].pc = "notify"
    /\ LET v == threads[t].v
       IN  /\ after_queue' = IF UiUpdateDue(fps_counter)
                             THEN Append(after_queue, Notification(v))
                             ELSE after_queue
           /\ IF v.current_time - WindowStart(v.current_time) >= FpsWindow
              THEN /\ fps_display' = fps_counter
                   /\ fps_counter' = 0
                   /\ fps_start_time' = v.current_time
              ELSE UNCHANGED << fps_display, fps_counter, fps_start_time >>
    /\ threads' = GotoWith(t, "loop", NoLocals)
    /\ UNCHANGED << sessionVars, available, previous_nose_position, frame_buffer,
                    last_update_time, clock, frame_seq, first_frame_time,
                    ui_update_lock, consumer, display, last_call, scriptVars, probeVars >>

\* ------------------------------------------------ consumer callback
\* update_surveillance_display, run by the main loop for the oldest queued
\* call.  pc: idle; render (lock held, lines 230-255); labels (lines 258-273).
NoCall == [ pc |-> "idle", args |-> Notification(NoLocals), image |-> NoFrame ]

DisplayBegin ==
    /\ consumer.pc = "idle"
    /\ after_queue # << >>
    /\ ui_update_lock = "free"
    /\ after_queue' = Tail(after_queue)
    /\ IF frame_buffer # NoFrame
       THEN /\ ui_update_lock' = "consumer"
            /\ consumer' = [ pc |-> "render", args |-> Head(after_queue),
                             image |-> frame_buffer ]
       ELSE /\ ui_update_lock' = "free"
            /\ consumer' = [ pc |-> "labels", args |-> Head(after_queue),
                             image |-> NoFrame ]
    /\ UNCHANGED << sessionVars, available, threads, frameVars, display, last_call,
                    scriptVars, probeVars >>

DisplayRender ==
    /\ consumer.pc = "render"
    /\ display' = [ display EXCEPT !.image = consumer.image ]
    /\ ui_update_lock' = "free"
    /\ consumer' = [ consumer EXCEPT !.pc = "labels" ]
    /\ UNCHANGED << sessionVars, available, threads, frameVars, after_queue, last_call,
                    scriptVars, probeVars >>

DisplayLabels ==
    /\ consumer.pc = "labels"
    /\ display' = [ display EXCEPT !.status = consumer.args.status,
                                   !.threat_level = consumer.args.threat_level,
                                   !.gaze_info = consumer.args.gaze_info,
                                   !.fps = fps_display,
                                   !.shown = consumer.args.frame ]
    /\ consumer' = NoCall
    /\ UNCHANGED << sessionVars, available, threads, frameVars, ui_update_lock,
                    after_queue, last_call, scriptVars, probeVars >>

\* ------------------------------------------------ feature functions alone
\* A call of one feature function on the landmark list probe, and what it
\* returned; a function that does not return a field leaves it as below.
NoOutcome == [ op |-> None, eye_side |-> None, eyes_open |-> FALSE,
               label |-> None, flag |-> FALSE ]

call_detect_eye_state ==
    /\ outcome' = [ NoOutcome EXCEPT !.op = "detect_eye_state",
                                     !.eyes_open = detect_eye_state(probe) ]
    /\ UNCHANGED << sessionVars, available, threads, frameVars, uiVars, last_call,
                    scriptVars, probe >>

call_analyze_gaze_direction(eye_side) ==
    /\ LET gaze == analyze_gaze_direction(probe, eye_side)
       IN  outcome' = [ NoOutcome EXCEPT !.op = "analyze_gaze_direction",
                                        !.eye_side = eye_side,
                                        !.label = gaze[1],
                                        !.flag = gaze[2] ]
    /\ UNCHANGED << sessionVars, available, threads, frameVars, uiVars, last_call,
                    scriptVars, probe >>

\* ------------------------------------------------ specifications
InitProgram ==
    /\ is_monitoring = FALSE
    /\ capture_device = NoDevice
    /\ camera_index = 0
    /\ control_status = "SYSTEM OFFLINE"
    /\ available = Installed
    /\ threads = << >>
    /\ previous_nose_position = NoPoint
    /\ frame_buffer = NoFrame
    /\ last_update_time = 0
    /\ fps_counter = 0
    /\ fps_display = 0
    /\ fps_start_time = Unset
    /\ ui_update_lock = "free"
    /\ after_queue = << >>
    /\ consumer = NoCall
    /\ display = [ image |-> NoFrame, status |-> "STANDBY", threat_level |-> "UNKNOWN",
                   gaze_info |-> << "NOT DETECTED" >>, fps |-> 0, shown |-> NoFrame ]
    /\ clock = MinFrameInterval
    /\ frame_seq = 0
    /\ first_frame_time = 0
    /\ last_call = [ op |-> "none", was_monitoring |-> FALSE ]
    /\ status_log = << >>
    /\ alert_log = << >>
    /\ outcome = NoOutcome

Init == InitProgram /\ script = << >> /\ feed = << >> /\ probe = NoLandmarks

\* Spec: the session commands in any order, the cameras coming and going,
\* and the producers the commands spawn.  Between two readings the
\* clock stands still or advances by 1/30 s, and every tone plays.
Next ==
    \/ initiate_monitoring
    \/ terminate_monitoring
    \/ cycle_camera_input
    \/ CameraChange
    \/ \E t \in ThreadIds : Enter(t)
    \/ \E t \in ThreadIds : LoopFlag(t)
    \/ \E t \in ThreadIds : LoopDevice(t)
    \/ \E t \in ThreadIds : Read(t)
    \/ \E t \in ThreadIds : Throttle(t, MaxFrames, { 0, MinFrameInterval })
    \/ \E t \in ThreadIds : ProcessFrame(t, FewFrames)
    \/ \E t \in ThreadIds : BeepDone(t, { "played" })
    \/ \E t \in ThreadIds : Write(t)
    \/ \E t \in ThreadIds : Notify(t)

Spec == Init /\ [][Next]_vars

\* SpecDisplay: one session, its producer and the main loop's display callbacks.
NextDisplay ==
    \/ initiate_monitoring
    \/ \E t \in ThreadIds : Enter(t)
    \/ \E t \in ThreadIds : LoopFlag(t)
    \/ \E t \in ThreadIds : LoopDevice(t)
    \/ \E t \in ThreadIds : Read(t)
    \/ \E t \in ThreadIds : Throttle(t, DisplayFrames, { 0, MinFrameInterval })
    \/ \E t \in ThreadIds : ProcessFrame(t, FewFrames)
    \/ \E t \in ThreadIds : BeepDone(t, BeepResults)
    \/ \E t \in ThreadIds : Write(t)
    \/ \E t \in ThreadIds : Notify(t)
    \/ DisplayBegin
    \/ DisplayRender
    \/ DisplayLabels

SpecDisplay == Init /\ [][NextDisplay]_vars

\* SpecSession: the session commands in any order and the cameras coming and
\* going, with each producer followed up to its first read of the camera.
NextSession ==
    \/ initiate_monitoring
    \/ terminate_monitoring
    \/ cycle_camera_input
    \/ CameraChange
    \/ \E t \in ThreadIds : Enter(t)
    \/ \E t \in ThreadIds : LoopFlag(t)
    \/ \E t \in ThreadIds : LoopDevice(t)
    \/ \E t \in ThreadIds : Read(t)

SpecSession == Init /\ [][NextSession]_vars

\* SpecFrames: one session whose provider answers with any frame of Frames,
\* the clock standing still or advancing by 1/30 s or by a whole FPS window.
NextFrames ==
    \/ initiate_monitoring
    \/ \E t \in ThreadIds : Enter(t)
    \/ \E t \in ThreadIds : LoopFlag(t)
    \/ \E t \in ThreadIds : LoopDevice(t)
    \/ \E t \in ThreadIds : Read(t)
    \/ \E t \in ThreadIds : Throttle(t, AnalysedFrames, { 0, MinFrameInterval, FpsWindow })
    \/ \E t \in ThreadIds : ProcessFrame(t, Frames)
    \/ \E t \in ThreadIds : BeepDone(t, BeepResults)
    \/ \E t \in ThreadIds : Write(t)
    \/ \E t \in ThreadIds : Notify(t)

SpecFrames == Init /\ [][NextFrames]_vars

\* SpecRun: one session whose provider plays a script, HalfRun frames of one
\* kind and then HalfRun frames of another.  Between two readings the clock
\* stands still or advances by 1/60 s or 1/30 s.
Repeat(f, n) == [ i \in 1..n |-> f ]

CalmFrame == MkFrame(Pt(500, 600), 100, 50, 100, 50)
ShutFrame == MkFrame(Pt(500, 600), 12, 6, 12, 6)

ScriptFrames == { CalmFrame, ShutFrame, NoFace,
                  MkFrame(Pt(660, 600), 100, 50, 100, 50),
                  MkFrame(Pt(500, 600), 100, 24, 100, 50) }

Scripts == { Repeat(a, HalfRun) \o Repeat(b, HalfRun) : a, b \in ScriptFrames }

InitRun == InitProgram /\ script \in Scripts /\ feed = script /\ probe = NoLandmarks

NextRun ==
    \/ initiate_monitoring
    \/ \E t \in ThreadIds : Enter(t)
    \/ \E t \in ThreadIds : LoopFlag(t)
    \/ \E t \in ThreadIds : LoopDevice(t)
    \/ \E t \in ThreadIds : Read(t)
    \/ \E t \in ThreadIds : Throttle(t, 2 * HalfRun, { 0, 1, MinFrameInterval })
    \/ \E t \in ThreadIds : ProcessScripted(t)
    \/ \E t \in ThreadIds : BeepDone(t, BeepResults)
    \/ \E t \in ThreadIds : Write(t)
    \/ \E t \in ThreadIds : Notify(t)

SpecRun == InitRun /\ [][NextRun]_vars

\* SpecRestart: a session that is stopped between two iterations of its
\* producer, after SessionFrames frames, and started again; the provider
\* answers with a calm face whose nose tip is at one of two places, 160 units
\* apart.
Poses == { MkFrame(Pt(500, 600), 100, 50, 100, 50),
           MkFrame(Pt(660, 600), 100, 50, 100, 50) }

StopBetweenFrames ==
    /\ frame_seq = SessionFrames
    /\ \A t \in Threads : threads[t].pc = "loop"
    /\ terminate_monitoring

NextRestart ==
    \/ initiate_monitoring
    \/ StopBetweenFrames
    \/ \E t \in ThreadIds : Enter(t)
    \/ \E t \in ThreadIds : LoopFlag(t)
    \/ \E t \in ThreadIds : LoopDevice(t)
    \/ \E t \in ThreadIds : Read(t)
    \/ \E t \in ThreadIds : Throttle(t, SessionFrames + 1, { 0, MinFrameInterval })
    \/ \E t \in ThreadIds : ProcessFrame(t, Poses)
    \/ \E t \in ThreadIds : BeepDone(t, BeepResults)
    \/ \E t \in ThreadIds : Write(t)
    \/ \E t \in ThreadIds : Notify(t)

SpecRestart == Init /\ [][NextRestart]_vars

\* SpecFeatures: the feature functions called on one landmark list.
\* Lengths: an empty list, lists that end before one of the eye corners, the
\* 468 points given without refine_landmarks, a list holding the left iris
\* only, and the full 478.
ListLengths == { 0, 34, 134, 264, 363, 468, 470, 478 }

\* Second-corner offsets: distance 0, 11, 12 (the threshold), 13, 12 on the
\* other axis, sqrt(145) and sqrt(137) on a slope, and 100.
CornerOffsets == { Pt(0, 0), Pt(11, 0), Pt(12, 0), Pt(13, 0), Pt(0, 12),
                   Pt(9, 8), Pt(11, 4), Pt(100, 0) }

\* << second corner, iris >> offsets of one eye: ratios 0, 0.2, 0.24, 0.25,
\* 0.26, 0.34, 0.35, 0.36, 0.5, 0.64, 0.65, 0.66, 0.74, 0.75, 0.76, 1 and
\* 1.2 on an eye of width 100; 0.25, 0.35, 0.65, 0.75 on one of width 20;
\* an iris off the corner line (ratio 0.5) and one outside the first corner
\* (ratio 0.2); and an eye of width 0.
GazeEyes ==
    { << Pt(100, 0), Pt(x, 0) >> :
        x \in { 0, 20, 24, 25, 26, 34, 35, 36, 50, 64, 65, 66, 74, 75, 76, 100, 120 } }
    \cup { << Pt(20, 0), Pt(x, 0) >> : x \in { 5, 7, 13, 15 } }
    \cup { << Pt(100, 0), Pt(30, 40) >>, << Pt(100, 0), Pt(-20, 0) >>,
           << Pt(0, 100), Pt(0, 75) >>, << Pt(0, 0), Pt(0, 0) >>,
           << Pt(0, 0), Pt(10, 0) >> }

EyeStateProbes ==
    { MkLandmarks(n, Pt(500, 600), lc, Pt(0, 0), rc, Pt(0, 0)) :
        n \in ListLengths, lc \in CornerOffsets, rc \in CornerOffsets }

GazeProbes ==
    { MkLandmarks(n, Pt(500, 600), e[1], e[2], e[1], e[2]) :
        n \in { 468, 470, 478 }, e \in GazeEyes }

Probes == EyeStateProbes \cup GazeProbes

InitFeatures == InitProgram /\ script = << >> /\ feed = << >> /\ probe \in Probes

NextFeatures ==
    \/ call_detect_eye_state
    \/ \E eye_side \in { "left", "right" } : call_analyze_gaze_direction(eye_side)

SpecFeatures == InitFeatures /\ [][NextFeatures]_vars

\* ------------------------------------------------ properties
\* The producers that have analysed a frame and not yet finished its iteration:
\* their locals are those of that frame.
Analysing == { t \in Threads : threads[t].pc \in { "beep", "write", "notify" } }

\* The first corner, second corner and iris indices of an eye.
EyeIndices(eye_side) ==
    IF eye_side = "left"
    THEN << LEFT_EYE_CORNERS[1], LEFT_EYE_CORNERS[2], LEFT_IRIS >>
    ELSE << RIGHT_EYE_CORNERS[1], RIGHT_EYE_CORNERS[2], RIGHT_IRIS >>

\* C1 (SpecFrames): a frame with a face is classified by the first rule that
\* matches, in the order eyes closed (EYES_CLOSED, ALERT, warning alert), head
\* moved (EXCESSIVE_MOVEMENT, WARNING, standard alert), an extreme flag on
\* either eye (SUSPICIOUS_GAZE, CAUTION, standard alert), otherwise
\* TARGET_LOCKED, SECURE and no alert.
C1_ClassifierPrecedence ==
    \A t \in Analysing :
        LET v == threads[t].v
        IN  v.landmarks.face =>
              /\ v.face_detected
              /\ << v.status, v.threat, v.alert >> =
                   IF ~v.eyes_open THEN << "EYES_CLOSED", "ALERT", "warning" >>
                   ELSE IF v.head_moved
                        THEN << "EXCESSIVE_MOVEMENT", "WARNING", "standard" >>
                   ELSE IF v.left_alert \/ v.right_alert
                        THEN << "SUSPICIOUS_GAZE", "CAUTION", "standard" >>
                   ELSE << "TARGET_LOCKED", "SECURE", "none" >>

\* A frame with the eyes closed and the head moved has been classified EYES_CLOSED.
C1_Witness ==
    \E t \in Analysing :
        /\ threads[t].v.landmarks.face
        /\ ~threads[t].v.eyes_open
        /\ threads[t].v.head_moved
        /\ threads[t].v.status = "EYES_CLOSED"

\* C2 (SpecDisplay): the image the display callback copies from frame_buffer
\* is the image of the frame whose classification it was queued with.
C2_DisplayOfOneFrame ==
    consumer.pc \in { "render", "labels" } => consumer.image = consumer.args.frame

\* C3 (Spec): once a later initiate_monitoring has spawned a producer, no
\* producer spawned earlier passes the loop condition again: only the
\* producer spawned last goes on to read the camera.
C3_SingleProducer ==
    [][ \A t \in ThreadIds :
          (t \in Threads /\ threads[t].pc = "loopdev" /\ threads'[t].pc = "read")
              => t = Len(threads) ]_vars

\* C4 (SpecFrames): when the two corners of an eye coincide, the gaze label of
\* that eye is an error label, not CENTER, and its extreme flag is set.
C4_DegenerateGazeFlagged ==
    \A t \in Analysing : \A eye_side \in { "left", "right" } :
        LET v  == threads[t].v
            ix == EyeIndices(eye_side)
            label == IF eye_side = "left" THEN v.left_gaze ELSE v.right_gaze
            flag  == IF eye_side = "left" THEN v.left_alert ELSE v.right_alert
        IN  (/\ v.landmarks.face
             /\ DistanceSq(v.landmarks.landmark[ix[1]], v.landmarks.landmark[ix[2]]) = 0)
                => /\ label \in { "TRACKING_ERROR", "DETECTION_FAILED" }
                   /\ label # "CENTER"
                   /\ flag

\* C5 (Spec): no VideoCapture object is released twice, and after
\* terminate_monitoring has run on an idle session the session is idle and
\* holds no device.
C5_StopIdempotent ==
    /\ capture_device.releases <= 1
    /\ last_call = [ op |-> "stop", was_monitoring |-> FALSE ]
          => /\ ~is_monitoring
             /\ capture_device = NoDevice
             /\ control_status = "SYSTEM OFFLINE"

\* terminate_monitoring has run on a session that was idle.
C5_Witness ==
    /\ last_call = [ op |-> "stop", was_monitoring |-> FALSE ]
    /\ ~is_monitoring
    /\ capture_device = NoDevice

\* C6 (SpecFrames): a frame without a face gives NO_TARGET, SECURE and no
\* trigger_alert call, whatever self.previous_nose_position holds.
C6_NoFaceNoTarget ==
    \A t \in Analysing :
        LET v == threads[t].v
        IN  ~v.landmarks.face =>
              /\ ~v.face_detected
              /\ v.status = "NO_TARGET"
              /\ v.threat = "SECURE"
              /\ v.alert = "none"
              /\ threads[t].pc # "beep"

\* A frame without a face has been analysed while a nose position of an
\* earlier frame was stored.
C6_Witness ==
    \E t \in Analysing :
        /\ ~threads[t].v.landmarks.face
        /\ threads[t].v.status = "NO_TARGET"
        /\ previous_nose_position # NoPoint

\* The trigger_alert call the claim expects for a status.
ExpectedAlert(status) ==
    CASE status = "EYES_CLOSED" -> "warning"
      [] status \in { "EXCESSIVE_MOVEMENT", "SUSPICIOUS_GAZE" } -> "standard"
      [] OTHER -> "none"

ExpectedAlerts(log) ==
    SelectSeq([ i \in 1..Len(log) |-> ExpectedAlert(log[i]) ], LAMBDA k : k # "none")

\* C7 (SpecRun): the trigger_alert calls of a run are, in order, one warning
\* for each EYES_CLOSED frame and one standard alert for each
\* EXCESSIVE_MOVEMENT or SUSPICIOUS_GAZE frame, repeated or not, and none for
\* the other frames; and HalfRun calm frames followed by HalfRun frames with
\* the eyes closed give HalfRun times TARGET_LOCKED, then HalfRun times
\* EYES_CLOSED, and exactly HalfRun alerts, all of kind warning.
C7_AlertPerFrame ==
    /\ alert_log = ExpectedAlerts(status_log)
    /\ Len(status_log) = Len(script) - Len(feed)
    /\ (script = Repeat(CalmFrame, HalfRun) \o Repeat(ShutFrame, HalfRun) /\ feed = << >>)
          => /\ status_log = Repeat("TARGET_LOCKED", HalfRun) \o
                             Repeat("EYES_CLOSED", HalfRun)
             /\ alert_log = Repeat("warning", HalfRun)

\* The run of calm frames and then closed eyes has been played to its end.
C7_Witness ==
    /\ script = Repeat(CalmFrame, HalfRun) \o Repeat(ShutFrame, HalfRun)
    /\ feed = << >>
    /\ Len(status_log) = 2 * HalfRun
    /\ Len(alert_log) = HalfRun

\* C8 (SpecFrames): once a frame has been handled 1.0 s or more after the
\* first frame of the session, so that the first FPS window has elapsed, the
\* reported FPS is no longer its initial 0.
C8_FpsReported ==
    (/\ frame_seq > 0
     /\ \A t \in Threads : threads[t].pc \notin { "process", "beep", "write", "notify" }
     /\ last_update_time - first_frame_time >= FpsWindow)
        => fps_display > 0

\* C9 (SpecFrames): a monitor_head_movement call made while no position is
\* stored returns (False, 0.0); a later call returns moved exactly when the
\* nose tip is more than the threshold away from the position the call before
\* it stored, and 0.0 as magnitude when it is not; and every call stores the
\* current nose tip.
C9_HeadMovementFrameToFrame ==
    [][ \A t \in ThreadIds :
          (/\ t \in Threads
           /\ threads[t].pc = "process"
           /\ threads'[t].pc # "process"
           /\ threads'[t].v.landmarks.face)
            => LET v    == threads'[t].v
                   nose == v.landmarks.landmark[NOSE_TIP]
               IN  /\ previous_nose_position' = nose
                   /\ IF previous_nose_position = NoPoint
                      THEN ~v.head_moved /\ v.movement = 0
                      ELSE /\ v.head_moved =
                                (DistanceSq(nose, previous_nose_position)
                                    > MovementThreshold * MovementThreshold)
                           /\ ~v.head_moved => v.movement = 0 ]_vars

\* The third frame of a session has been analysed, its nose tip 80 units
\* from the one before and 160 from the first, and no movement was reported.
C9_Witness ==
    \E t \in Analysing :
        /\ threads[t].v.frame = 3
        /\ threads[t].v.landmarks.face
        /\ threads[t].v.landmarks.landmark[NOSE_TIP] = Pt(660, 600)
        /\ previous_nose_position = Pt(660, 600)
        /\ ~threads[t].v.head_moved

\* C10 (Spec): cycle_camera_input tests at most ProbeRange indices, and when
\* none of them opens it leaves camera_index as it was, ends with the session
\* idle and reports the camera error.
C10_CycleWithoutCamera ==
    [][ (/\ cycle_camera_input
         /\ \A k \in 1..ProbeRange : ProbeOrder(camera_index)[k] \notin available)
           => /\ Len(ProbesMade(camera_index, available)) <= ProbeRange
              /\ camera_index' = camera_index
              /\ ~is_monitoring'
              /\ control_status' = "CAMERA ERROR" ]_vars

\* C11 (SpecDisplay): ui_update_lock is held by update_surveillance_display
\* only while it copies frame_buffer, not while it renders the copy, so a
\* producer that has reached its write of frame_buffer while the callback is
\* rendering finds the lock free.
C11_LockFreeWhileRendering ==
    \A t \in Threads :
        (threads[t].pc = "write" /\ consumer.pc = "render") => ui_update_lock = "free"

\* C12 (SpecFrames): trigger_alert returns without waiting for the tone: a
\* producer whose frame made a trigger_alert call is never held inside that
\* call while the tone plays, its write of frame_buffer is its next step.
C12_AlertDoesNotStall ==
    \A t \in Threads :
        (threads[t].pc \in { "beep", "write" } /\ threads[t].v.alert # "none")
            => threads[t].pc = "write"

\* The producers that are between the throttle and the end of an iteration.
InFlight == { t \in Threads : threads[t].pc \in { "process", "beep", "write", "notify" } }

\* The threat level that goes with a status at lines 166-207.
ThreatOf(status) ==
    CASE status = "EYES_CLOSED"        -> "ALERT"
      [] status = "EXCESSIVE_MOVEMENT" -> "WARNING"
      [] status = "SUSPICIOUS_GAZE"    -> "CAUTION"
      [] OTHER                         -> "SECURE"

\* What the claim expects the notification of the k-th processed frame of a
\* scripted run to carry.
ExpectedNotification(k) ==
    [ face_detected |-> script[k].face,
      status        |-> status_log[k],
      threat_level  |-> ThreatOf(status_log[k]),
      gaze_info     |-> IF script[k].face
                        THEN << analyze_gaze_direction(script[k].landmark, "left")[1],
                                analyze_gaze_direction(script[k].landmark, "right")[1] >>
                        ELSE << "UNKNOWN" >>,
      frame         |-> k ]

C13_NotifiedFrames ==
    LET completed == frame_seq - Cardinality(InFlight)
    IN  after_queue = [ i \in 1..(completed \div UiStride) |->
                          ExpectedNotification(UiStride * i) ]

C13_SkipsDoNotCount ==
    \A t \in ThreadIds :
        (/\ t \in Threads
         /\ threads[t].pc \in { "read", "throttle" }
         /\ threads'[t].pc = "loop")
            => UNCHANGED << fps_counter, frame_seq, after_queue >>

\* C13 (SpecRun): in a session, the processed frames that queue a call of
\* update_surveillance_display are exactly the 3rd, 6th, 9th, ... (those on
\* which fps_counter is a multiple of 3), so one of every three consecutive
\* processed frames; the call carries face_detected, status, threat level and
\* gaze labels of that same frame; and an iteration that a failed read or the
\* throttle skips does not advance the count.
C13_EveryThirdFrameNotifies ==
    [] C13_NotifiedFrames /\ [][ C13_SkipsDoNotCount ]_vars

\* Nine frames of a run have been processed, the last six being frames with
\* closed eyes, and the third, sixth and ninth have queued their calls.
C13_Witness ==
    /\ Len(after_queue) = 3
    /\ after_queue[3].frame = 9
    /\ after_queue[3].status = "EYES_CLOSED"
    /\ after_queue[1].status = "TARGET_LOCKED"
    /\ frame_seq = 9
    /\ InFlight = { }

\* C14 (Spec): initiate_monitoring called while is_monitoring is set reports
\* the failure AlreadyRunning and changes nothing: no VideoCapture is opened,
\* no thread is started, and is_monitoring, camera_index and capture_device
\* are as before.
C14_StartWhileRunning ==
    [][ (initiate_monitoring /\ is_monitoring)
           => /\ UNCHANGED << is_monitoring, capture_device, camera_index, threads >>
              /\ InitiateReport(Session, available) = "AlreadyRunning" ]_vars

\* initiate_monitoring is called on an idle session.
StartFromIdle == initiate_monitoring /\ ~is_monitoring

\* C15 (SpecSession): initiate_monitoring on an idle session whose camera does not
\* open leaves the session idle, starts no thread and reports CAMERA ERROR
\* (it raises nothing); and initiate_monitoring on an idle session whose
\* camera opens, in particular one that a failed start left behind, sets
\* is_monitoring, reports SYSTEM ACTIVE and starts exactly one thread.
C15_StartFailureRecovers ==
    /\ [][ (StartFromIdle /\ camera_index \notin available)
              => /\ ~is_monitoring'
                 /\ threads' = threads
                 /\ control_status' = "CAMERA ERROR"
                 /\ InitiateReport(Session, available) = "CAMERA ERROR" ]_vars
    /\ [][ (StartFromIdle /\ camera_index \in available)
              => /\ is_monitoring'
                 /\ capture_device'.opened
                 /\ threads' = Append(threads, NewThread)
                 /\ control_status' = "SYSTEM ACTIVE" ]_vars

\* A start has failed: the session is idle, no thread was ever started, the
\* device that did not open is still referenced and CAMERA ERROR is shown.
C15_Witness ==
    /\ last_call = [ op |-> "start", was_monitoring |-> FALSE ]
    /\ control_status = "CAMERA ERROR"
    /\ ~is_monitoring
    /\ capture_device.object /\ ~capture_device.opened
    /\ threads = << >>

\* C16 (SpecFeatures): detect_eye_state returns True exactly when the list
\* holds the four corner points and the corner-to-corner distance of the left
\* eye and that of the right eye are both strictly greater than
\* eye_open_threshold; a distance equal to the threshold, or a list that
\* lacks one of the four indices, gives False, and no call raises.
C16_EyeStateStrict ==
    outcome.op = "detect_eye_state" =>
        LET ix == { LEFT_EYE_CORNERS[1], LEFT_EYE_CORNERS[2],
                    RIGHT_EYE_CORNERS[1], RIGHT_EYE_CORNERS[2] }
        IN  /\ outcome.eyes_open \in BOOLEAN
            /\ ~(ix \subseteq DOMAIN probe) => ~outcome.eyes_open
            /\ ix \subseteq DOMAIN probe =>
                 LET left  == DistanceSq(probe[LEFT_EYE_CORNERS[1]],
                                         probe[LEFT_EYE_CORNERS[2]])
                     right == DistanceSq(probe[RIGHT_EYE_CORNERS[1]],
                                         probe[RIGHT_EYE_CORNERS[2]])
                     limit == EyeOpenThreshold * EyeOpenThreshold
                 IN  /\ outcome.eyes_open = (left > limit /\ right > limit)
                     /\ (left = limit \/ right = limit) => ~outcome.eyes_open

\* detect_eye_state has returned False for a full list whose left eye is
\* exactly at the threshold and whose right eye is wide open.
C16_Witness ==
    /\ outcome.op = "detect_eye_state"
    /\ DOMAIN probe = RequiredIndices
    /\ DistanceSq(probe[LEFT_EYE_CORNERS[1]], probe[LEFT_EYE_CORNERS[2]])
         = EyeOpenThreshold * EyeOpenThreshold
    /\ DistanceSq(probe[RIGHT_EYE_CORNERS[1]], probe[RIGHT_EYE_CORNERS[2]])
         > EyeOpenThreshold * EyeOpenThreshold
    /\ ~outcome.eyes_open

\* C17 (SpecRun): when winsound.Beep fails inside trigger_alert, for a
\* standard alert as for a warning, trigger_alert returns normally: the
\* producer is not ended by an exception, it goes on to write the frame to
\* frame_buffer and to finish the iteration.
C17_BeepFailureSwallowed ==
    /\ [] (\A t \in Threads : threads[t].pc # "crashed")
    /\ [][ \A t \in ThreadIds :
             (t \in Threads /\ threads[t].pc = "beep" /\ threads'[t].pc # "beep")
                => /\ threads'[t].pc = "write"
                   /\ threads'[t].v.alert = threads[t].v.alert ]_vars
    /\ [] (\A t \in Threads :
             threads[t].v.beep = "failed" => threads[t].pc \in { "write", "notify" })

\* The tone of a warning alert could not be played, and the producer has
\* written that frame to frame_buffer and is about to finish the iteration.
C17_Witness ==
    \E t \in Threads :
        /\ threads[t].v.beep = "failed"
        /\ threads[t].v.alert = "warning"
        /\ threads[t].pc = "notify"
        /\ frame_buffer = threads[t].v.frame

\* The ratio of two distances given by their squares, compared with a / b.
Less(d1sq, d2sq, a, b)   == d1sq * b * b < a * a * d2sq
AtMost(d1sq, d2sq, a, b) == d1sq * b * b <= a * a * d2sq

\* The band of the claim that the ratio iris / width falls in, and whether
\* the claim calls it extreme.
ClaimedGaze(iris, width) ==
    IF Less(iris, width, 25, 100)         THEN << "EXTREME_LEFT", TRUE >>
    ELSE IF Less(iris, width, 35, 100)    THEN << "LEFT", FALSE >>
    ELSE IF ~AtMost(iris, width, 75, 100) THEN << "EXTREME_RIGHT", TRUE >>
    ELSE IF ~AtMost(iris, width, 65, 100) THEN << "RIGHT", FALSE >>
    ELSE << "CENTER", FALSE >>

\* C18 (SpecFeatures): for an eye whose corners differ and whose three
\* indices are present, analyze_gaze_direction returns, for the ratio r of
\* the iris-to-first-corner distance to the corner-to-corner distance,
\* EXTREME_LEFT and True when r < 0.25, LEFT and False when 0.25 <= r < 0.35,
\* EXTREME_RIGHT and True when r > 0.75, RIGHT and False when
\* 0.65 < r <= 0.75, CENTER and False when 0.35 <= r <= 0.65; and whatever
\* the list, the flag is True only with EXTREME_LEFT, EXTREME_RIGHT or an
\* error label.
C18_GazeBands ==
    outcome.op = "analyze_gaze_direction" =>
        LET ix == EyeIndices(outcome.eye_side)
        IN  /\ outcome.flag => outcome.label \in { "EXTREME_LEFT", "EXTREME_RIGHT",
                                                   "TRACKING_ERROR", "DETECTION_FAILED" }
            /\ ({ ix[1], ix[2], ix[3] } \subseteq DOMAIN probe
                  /\ probe[ix[1]] # probe[ix[2]])
                 => << outcome.label, outcome.flag >> =
                      ClaimedGaze(DistanceSq(probe[ix[1]], probe[ix[3]]),
                                  DistanceSq(probe[ix[1]], probe[ix[2]]))

\* analyze_gaze_direction has returned RIGHT, not extreme, for a right eye
\* whose ratio is exactly 0.75.
C18_Witness ==
    /\ outcome.op = "analyze_gaze_direction"
    /\ outcome.eye_side = "right"
    /\ DOMAIN probe = RequiredIndices
    /\ 16 * DistanceSq(probe[RIGHT_EYE_CORNERS[1]], probe[RIGHT_IRIS])
         = 9 * DistanceSq(probe[RIGHT_EYE_CORNERS[1]], probe[RIGHT_EYE_CORNERS[2]])
    /\ probe[RIGHT_EYE_CORNERS[1]] # probe[RIGHT_EYE_CORNERS[2]]
    /\ outcome.label = "RIGHT"
    /\ ~outcome.flag

\* C19 (Spec): whenever terminate_monitoring runs during a producer's
\* iteration, the producer neither calls a method of a capture_device that is
\* None nor is ended by an exception: no producer thread ever dies of an
\* unhandled error.
C19_StopNeverCrashesProducer ==
    \A t \in Threads : threads[t].pc # "crashed"

\* C20 (SpecRestart): terminate_monitoring clears previous_nose_position, so
\* the first frame with a face that is analysed after the session was stopped
\* and started again gets (False, 0.0) from monitor_head_movement and is not
\* classified EXCESSIVE_MOVEMENT.  The session is stopped when SessionFrames
\* frames have been processed, so that frame is number SessionFrames + 1, and
\* a second thread exists only once the session was started again.
C20_RestartStartsFresh ==
    \A t \in Analysing :
        LET v == threads[t].v
        IN  (/\ Len(threads) >= 2
             /\ v.frame = SessionFrames + 1
             /\ v.landmarks.face)
                => /\ ~v.head_moved
                   /\ v.movement = 0
                   /\ v.status # "EXCESSIVE_MOVEMENT"

\* What an iteration that is skipped must leave as it was.
SkipLeaves ==
    UNCHANGED << fps_counter, frame_seq, last_update_time, frame_buffer,
                 previous_nose_position, fps_display, fps_start_time,
                 status_log, alert_log, after_queue, display, feed >>

C21_SkipChangesNothing ==
    \A t \in ThreadIds :
        /\ (/\ t \in Threads
            /\ threads[t].pc = "read"
            /\ threads'[t].pc # "read")
              => \/ threads'[t].pc = "throttle" /\ SkipLeaves
                 \/ /\ threads'[t] = [ threads[t] EXCEPT !.pc = "loop" ]
                    /\ SkipLeaves
        /\ (/\ t \in Threads
            /\ threads[t].pc = "throttle"
            /\ threads'[t].pc # "throttle")
              => IF clock' - last_update_time < MinFrameInterval
                 THEN /\ threads'[t] = [ threads[t] EXCEPT !.pc = "loop" ]
                      /\ SkipLeaves
                 ELSE /\ threads'[t].pc = "process"
                      /\ last_update_time' = clock'
                      /\ frame_seq' = frame_seq + 1

C21_FramesApart ==
    frame_seq >= 1 =>
        last_update_time - first_frame_time >= (frame_seq - 1) * MinFrameInterval

\* C21 (SpecRun): an iteration whose read fails, or whose time.time() is less
\* than 1/30 s after last_update_time, goes back to the loop condition and
\* leaves fps_counter, last_update_time, frame_buffer,
\* previous_nose_position, fps_display, the alerts sounded and the display
\* calls queued as they were; an iteration passes the throttle only when
\* 1/30 s or more has gone by since the last that passed, so the n-th
\* processed frame comes (n - 1)/30 s or more after the first.
C21_SkippedIterationChangesNothing ==
    [] C21_FramesApart /\ [][ C21_SkipChangesNothing ]_vars

\* After two frames or more, an iteration has read the clock 1/60 s after the
\* last processed frame and has been skipped: the producer is back at the
\* loop condition and frame_buffer still holds the last processed frame.
C21_Witness ==
    /\ frame_seq >= 2
    /\ InFlight = { }
    /\ \E t \in Threads : threads[t].pc = "loop"
    /\ clock > last_update_time
    /\ clock - last_update_time < MinFrameInterval
    /\ frame_buffer = frame_seq
    /\ fps_counter = frame_seq

====
